---- MODULE Spec2Model ----
(***************************************************************************)
(* Session / token lifecycle of the authentication front end:              *)
(*   src/store/auth.ts       the zustand store (persisted) and the global  *)
(*                           axios response interceptor                     *)
(*   src/utility/apiClient.ts the apiClient instance and its interceptors   *)
(*   src/middleware.ts      the route guard                                *)
(*   src/app/verify-email, src/app/forgot-password,                        *)
(*   src/components/VerifyEmail.tsx   the surfaces that offer a resend      *)
(*                                                                         *)
(* JavaScript runs one task at a time.  A macrotask (a UI call, a network  *)
(* response) starts only when the microtask queue is empty; every await    *)
(* resumes through the microtask queue mq, in FIFO order.  A suspended     *)
(* async function is a frame; the frames awaiting a promise form a stack   *)
(* (the head is resumed first).                                            *)
(***************************************************************************)
EXTENDS Naturals, Sequences, FiniteSets, TLC

VARIABLES session, storage, cookie, header, net, mq, nreq, nops, ev, rfail, fault,
          apiDefault, ui

vars == <<session, storage, cookie, header, net, mq, nreq, nops, ev, rfail, fault,
          apiDefault, ui>>

(* ------------------------------ bounds --------------------------------- *)

\* UI-level invocations (store operations and gateway requests) per run.
MaxOps == 2

\* HTTP requests dispatched per run.
MaxCalls == 4

\* resendVerificationEmail calls followed per mount of a surface.
MaxResends == 6

(* ------------------------------ values --------------------------------- *)

\* JavaScript null / undefined / a deleted key.
Null == <<>>

\* Strings the forms pass in, as sequences of characters.
Names == {<<>>, <<" ">>, <<"J">>}
Emails == {<<>>, <<" ">>, <<"b", " ">>}
Passwords == {<<>>, <<"p">>}
Confirms == {<<>>, <<"p">>, <<"q">>}
Codes == {<<>>, <<"g">>}

\* The accounts a Google authorization code may belong to.
GoogleAccounts == {<<"a">>}

\* HTTP statuses the backend answers with; NoResponse: no response at all.
NoResponse == 0
Statuses == {200, 401, 500, NoResponse}

\* response.data.message of an error response ("" when the body has none).
Messages == {"", "m"}

\* The statuses the backend answers a registration with, and
\* response.data.field of a 409 or 422 body ("" when the body has none).
FieldStatuses == {200, 401, 409, 422, 500}
Fields == {"", "email"}

\* What the browser refuses in this run: nothing, writing document.cookie
\* (Cookies.remove throws) or localStorage (removeItem throws).
Faults == {"none", "cookie", "storage"}

\* String.prototype.trim
RECURSIVE TrimLeft(_)
TrimLeft(s) ==
    IF s # <<>> /\ Head(s) = " " THEN TrimLeft(Tail(s)) ELSE s

RECURSIVE TrimRight(_)
TrimRight(s) ==
    IF s # <<>> /\ s[Len(s)] = " " THEN TrimRight(SubSeq(s, 1, Len(s) - 1)) ELSE s

Trim(s) == TrimRight(TrimLeft(s))

\* JavaScript truthiness of a string or of a nullable value.
Truthy(v) == v # Null

\* a || b on strings
OrElse(a, b) == IF a # "" THEN a ELSE b

\* `Bearer ${token}`
Bearer(token) == <<"Bearer", token>>

User(email) == [email |-> email]

Token(own, n) == [own |-> own, n |-> n]

(* ------------------------------ errors --------------------------------- *)

\* new Error(message)
JsError(message) ==
    [ok |-> FALSE, kind |-> "error", status |-> 0, msg |-> message, field |-> ""]

\* An AuthError object thrown by a store operation.
Thrown(authError) ==
    [ok |-> FALSE, kind |-> "auth", status |-> authError.statusCode,
     msg |-> authError.message, field |-> authError.field, code |-> authError.code]

AuthError(message, code, field, statusCode) ==
    [message |-> message, code |-> code, field |-> field, statusCode |-> statusCode]

\* error.message.includes("Network Error"), over the messages the code throws
IncludesNetworkError(m) == m \in {"Network Error"}

handleAuthError(error) ==
    IF error.kind = "axios" THEN
        IF error.status = NoResponse THEN
            AuthError("Server is unreachable. Please try again later.", "NETWORK_ERROR", "", 0)
        ELSE CASE error.status = 400 ->
                    AuthError(OrElse(error.msg, "Invalid request data"), "INVALID_REQUEST", error.field, 400)
               [] error.status = 401 ->
                    AuthError(OrElse(error.msg, "Invalid credentials"), "UNAUTHORIZED", "", 401)
               [] error.status = 403 ->
                    AuthError(OrElse(error.msg, "Access forbidden"), "FORBIDDEN", "", 403)
               [] error.status = 404 ->
                    AuthError(OrElse(error.msg, "Resource not found"), "NOT_FOUND", "", 404)
               [] error.status = 409 ->
                    AuthError(OrElse(error.msg, "Resource already exists"), "CONFLICT", error.field, 409)
               [] error.status = 422 ->
                    AuthError(OrElse(error.msg, "Validation failed"), "VALIDATION_ERROR", error.field, 422)
               [] error.status = 429 ->
                    AuthError("Too many requests. Please try again later.", "RATE_LIMITED", "", 429)
               [] error.status = 500 ->
                    AuthError("Server error. Please try again later.", "SERVER_ERROR", "", 500)
               [] OTHER ->
                    AuthError(OrElse(error.msg, "An unexpected error occurred"), "UNKNOWN_ERROR", "", error.status)
    ELSE IF error.kind = "error" THEN
        IF IncludesNetworkError(error.msg)
        THEN AuthError("Network error. Please check your connection.", "NETWORK_ERROR", "", 0)
        ELSE AuthError(error.msg, "GENERIC_ERROR", "", 0)
    ELSE AuthError("An unexpected error occurred", "UNKNOWN_ERROR", "", 0)

(* ------------------------- results and frames -------------------------- *)

\* A fulfilled promise without a value of interest.
Ok == [ok |-> TRUE, status |-> 0, data |-> Null]

\* A 2xx axios response.
Response(config, data) == [ok |-> TRUE, status |-> 200, data |-> data, config |-> config]

\* A rejected axios call with the config of its request (error.config); status
\* NoResponse means error.response is undefined.
RequestError(config, status, msg, field) ==
    [ok |-> FALSE, kind |-> "axios", status |-> status, msg |-> msg, field |-> field,
     config |-> config]

\* A store operation suspended at `await axios.post(...)`; auth0 remembers
\* whether the Session was authenticated when the operation was called.
OpFrame(op, auth0) == [f |-> "op", op |-> op, auth0 |-> auth0]

\* A response interceptor suspended at `await ...refreshToken()`.
IcptFrame(error) == [f |-> "icpt", error |-> error]

\* logOut suspended at its first await (step 2 runs next) or at its second
\* (step 3 runs next); empty0 remembers whether the Session was empty when
\* logOut was called.
LogOutFrame(step, empty0) == [f |-> "logOut", step |-> step, empty0 |-> empty0]

\* The calling surface, awaiting the operation it called.
UiFrame(op) == [f |-> "ui", op |-> op]

\* A handler of a page or component, awaiting the store operation op.
SurfaceFrame(handler, op) == [f |-> "surface", handler |-> handler, op |-> op]

\* The page or component on screen and its React state: the email it read or
\* was given, what it shows, its resend counter; resends counts the
\* resendVerificationEmail calls made since it was mounted.
Surface(name, email, view) ==
    [surface |-> name, email |-> email, view |-> view, resendCount |-> 0, resends |-> 0]

\* No page of interest is on screen: the store is called directly.
NoSurface == Surface("none", <<>>, "none")

\* originalRequest._retry of the request a response or an error belongs to:
\* a response interceptor has answered a 401 on it with a renewal.
Marked(res) == IF "config" \in DOMAIN res THEN res.config.retry ELSE FALSE

\* No operation settled in the latest step.
NoEv == [op |-> "none"]

(* ------------------------------ the store ------------------------------ *)

initialState ==
    [user |-> Null, token |-> Null, isAuthenticated |-> FALSE,
     isLoading |-> FALSE, error |-> Null]

\* partialize that leaves the token out of the record.
partializeNoToken(state) ==
    [user |-> state.user, isAuthenticated |-> state.isAuthenticated]

partialize(state) ==
    [user |-> state.user, token |-> state.token,
     isAuthenticated |-> state.isAuthenticated]

EmptySession(state) ==
    state.user = Null /\ state.token = Null /\ ~state.isAuthenticated

\* set under a persist without partialize: the whole state is written.
SetPersistsAll(S, patch) ==
    LET new == patch @@ S.session
    IN  [S EXCEPT !.session = new, !.storage = new]

\* zustand set under persist: merge the patch into the state, then write the
\* partialized state to localStorage["auth-storage"].
Set(S, patch) ==
    LET new == patch @@ S.session
    IN  [S EXCEPT !.session = new, !.storage = partialize(new)]

\* The promise of an async function settles: whoever awaits it (the stack k)
\* resumes one microtask later; nobody does when the call was not awaited.
Settle(S, k, res) ==
    IF k = <<>> THEN S
    ELSE [S EXCEPT !.mq = Append(@, [k |-> k, res |-> res, d |-> 0])]

\* An async function returns a promise (`return Promise.reject(error)`,
\* `return axios(originalRequest)`): its own promise adopts the returned one
\* AdoptTicks microtasks later.
AdoptTicks == 2

Adopt(S, k, res) ==
    IF k = <<>> THEN S
    ELSE [S EXCEPT !.mq = Append(@, [k |-> k, res |-> res, d |-> AdoptTicks])]

(* ------------------------------- logOut -------------------------------- *)

\* logOut without its `if (token)` guard.
logOutUnguarded(S, k) ==
    [S EXCEPT !.cookie = Null,
              !.mq = Append(@, [k |-> <<LogOutFrame(2, EmptySession(S.session))>> \o k,
                                res |-> Ok, d |-> 0])]

\* logOut without its try / catch: a throwing Cookies.remove rejects the call.
logOutNoTry(S, k) ==
    IF Truthy(S.session.token)
    THEN IF S.fault = "cookie"
         THEN Settle([S EXCEPT !.ev = [op |-> "logOut", ok |-> FALSE, done |-> "fault",
                                       empty0 |-> EmptySession(S.session)]],
                     k, JsError("SecurityError"))
         ELSE [S EXCEPT !.cookie = Null,
                        !.mq = Append(@, [k |-> <<LogOutFrame(2, EmptySession(S.session))>> \o k,
                                          res |-> Ok, d |-> 0])]
    ELSE Settle([S EXCEPT !.ev = [op |-> "logOut", ok |-> TRUE, done |-> "nothing",
                                  empty0 |-> EmptySession(S.session)]], k, Ok)

\* logOut up to its first await: Cookies.remove has run, or has thrown into the
\* catch block, which warns and lets the call resolve.  done tells how far the
\* call got: "nothing" (no token), "fault" (caught) or "all".
logOut(S, k) ==
    IF Truthy(S.session.token)
    THEN IF S.fault = "cookie"
         THEN Settle([S EXCEPT !.ev = [op |-> "logOut", ok |-> TRUE, done |-> "fault",
                                       empty0 |-> EmptySession(S.session)]], k, Ok)
         ELSE [S EXCEPT !.cookie = Null,
                        !.mq = Append(@, [k |-> <<LogOutFrame(2, EmptySession(S.session))>> \o k,
                                          res |-> Ok, d |-> 0])]
    ELSE Settle([S EXCEPT !.ev = [op |-> "logOut", ok |-> TRUE, done |-> "nothing",
                                  empty0 |-> EmptySession(S.session)]], k, Ok)

\* logOut from its first await on: removeItem (which may throw into the catch
\* block), await, then set and the header.
logOutResume(S, fr, k) ==
    IF fr.step = 2
    THEN IF S.fault = "storage"
         THEN Settle([S EXCEPT !.ev = [op |-> "logOut", ok |-> TRUE, done |-> "fault",
                                       empty0 |-> fr.empty0]], k, Ok)
         ELSE [S EXCEPT !.storage = Null,
                        !.mq = Append(@, [k |-> <<LogOutFrame(3, fr.empty0)>> \o k,
                                          res |-> Ok, d |-> 0])]
    ELSE LET S1 == Set(S, [user |-> Null, token |-> Null,
                           isAuthenticated |-> FALSE, error |-> Null])
             S2 == [S1 EXCEPT !.header = Null,
                              !.ev = [op |-> "logOut", ok |-> TRUE, done |-> "all",
                                      empty0 |-> fr.empty0]]
         IN  Settle(S2, k, Ok)

(* ------------------------------ transport ------------------------------ *)

\* The config of a new request.  tries counts its dispatches and renews the
\* renewals an interceptor started for it.
Config(client, kind, body) ==
    [client |-> client, kind |-> kind, body |-> body, retry |-> FALSE,
     auth |-> Null, tries |-> 0, renews |-> 0]

\* The Authorization header a request leaves with: the default header of the
\* instance that sends it unless the config sets one; apiClient's request
\* interceptor writes the store's token over it when the store holds one.
\* apiClient's default is the copy axios.create took of the global defaults
\* when the module was loaded.
Authorization(S, config) ==
    IF config.client = "api" /\ Truthy(S.session.token) THEN Bearer(S.session.token)
    ELSE IF config.auth # Null THEN config.auth
    ELSE IF config.client = "axios" THEN S.header
    ELSE S.apiDefault

\* Send a request; k awaits its promise.
Dispatch(S, config, k) ==
    IF S.nreq >= MaxCalls THEN [S EXCEPT !.ovf = TRUE]
    ELSE [S EXCEPT !.nreq = @ + 1,
                   !.net = @ \cup {[id |-> S.nreq + 1,
                                    config |-> [config EXCEPT !.auth = Authorization(S, config),
                                                              !.tries = @ + 1],
                                    k |-> k]}]

(* --------------------------- store operations ------------------------- *)

\* signUpThen that takes the registration for a login.
signUpThenAuthenticates(S, fr, res, k) ==
    LET S1 == Set(S, [user |-> res.data, isAuthenticated |-> TRUE,
                      isLoading |-> FALSE, error |-> Null])
    IN  Settle([S1 EXCEPT !.ev = [op |-> "signUp", ok |-> TRUE, auth0 |-> fr.auth0,
                                  res |-> res]], k, Ok)

\* signUp after a 2xx answer: the body is the user.
signUpThen(S, fr, res, k) ==
    LET S1 == Set(S, [user |-> res.data, isAuthenticated |-> FALSE,
                      isLoading |-> FALSE, error |-> Null])
    IN  Settle([S1 EXCEPT !.ev = [op |-> "signUp", ok |-> TRUE, auth0 |-> fr.auth0,
                                  res |-> res]], k, Ok)

\* signUpCatch that records the error and leaves the user alone.
signUpCatchKeepsUser(S, fr, error, k) ==
    LET authError == handleAuthError(error)
        S1 == Set(S, [isLoading |-> FALSE, error |-> authError])
    IN  Settle([S1 EXCEPT !.ev = [op |-> "signUp", ok |-> FALSE, auth0 |-> fr.auth0,
                                  local |-> error.kind = "error", err |-> authError,
                                  res |-> error]],
               k, Thrown(authError))

\* The catch block of signUp.
signUpCatch(S, fr, error, k) ==
    LET authError == handleAuthError(error)
        S1 == Set(S, [user |-> Null, isAuthenticated |-> FALSE,
                      isLoading |-> FALSE, error |-> authError])
    IN  Settle([S1 EXCEPT !.ev = [op |-> "signUp", ok |-> FALSE, auth0 |-> fr.auth0,
                                  local |-> error.kind = "error", err |-> authError,
                                  res |-> error]],
               k, Thrown(authError))

signUp(S, name, email, password, confirm_password, k) ==
    LET S1 == Set(S, [isLoading |-> TRUE, error |-> Null])
        fr == OpFrame("signUp", S.session.isAuthenticated)
    IN  IF ~Truthy(Trim(name)) THEN signUpCatch(S1, fr, JsError("Name is required"), k)
        ELSE IF ~Truthy(Trim(email)) THEN signUpCatch(S1, fr, JsError("Email is required"), k)
        ELSE IF password # confirm_password
             THEN signUpCatch(S1, fr, JsError("Passwords do not match"), k)
        ELSE Dispatch(S1, Config("axios", "register",
                                 [email |-> Trim(email), password |-> password,
                                  name |-> Trim(name), confirm_password |-> confirm_password]),
                      <<fr>> \o k)

\* logInThen without Cookies.set.
logInThenNoCookie(S, fr, res, k) ==
    LET user == res.data.user
        token == res.data.token
        S1 == [S EXCEPT !.header = Bearer(token)]
        S2 == Set(S1, [user |-> user, token |-> token, isAuthenticated |-> TRUE,
                       isLoading |-> FALSE, error |-> Null])
    IN  Settle([S2 EXCEPT !.ev = [op |-> fr.op, ok |-> TRUE, auth0 |-> fr.auth0,
                                  user |-> user, token |-> token,
                                  marked |-> Marked(res)]], k, Ok)

\* logIn and googleLogin after a 2xx answer {user, token}.
logInThen(S, fr, res, k) ==
    LET user == res.data.user
        token == res.data.token
        S1 == [S EXCEPT !.header = Bearer(token), !.cookie = token]
        S2 == Set(S1, [user |-> user, token |-> token, isAuthenticated |-> TRUE,
                       isLoading |-> FALSE, error |-> Null])
    IN  Settle([S2 EXCEPT !.ev = [op |-> fr.op, ok |-> TRUE, auth0 |-> fr.auth0,
                                  user |-> user, token |-> token,
                                  marked |-> Marked(res)]], k, Ok)

\* logInCatch that records the error and leaves user, token and header alone.
logInCatchKeepsSession(S, fr, error, k) ==
    LET authError == handleAuthError(error)
        S1 == Set(S, [isLoading |-> FALSE, error |-> authError])
    IN  Settle([S1 EXCEPT !.ev = [op |-> "logIn", ok |-> FALSE, auth0 |-> fr.auth0,
                                  local |-> error.kind = "error", err |-> authError,
                                  marked |-> Marked(error)]],
               k, Thrown(authError))

\* The catch block of logIn.
logInCatch(S, fr, error, k) ==
    LET authError == handleAuthError(error)
        S1 == [S EXCEPT !.header = Null]
        S2 == Set(S1, [user |-> Null, token |-> Null, isAuthenticated |-> FALSE,
                       isLoading |-> FALSE, error |-> authError])
    IN  Settle([S2 EXCEPT !.ev = [op |-> "logIn", ok |-> FALSE, auth0 |-> fr.auth0,
                                  local |-> error.kind = "error", err |-> authError,
                                  marked |-> Marked(error)]],
               k, Thrown(authError))

logIn(S, email, password, k) ==
    LET S1 == Set(S, [isLoading |-> TRUE, error |-> Null])
        fr == OpFrame("logIn", S.session.isAuthenticated)
    IN  IF ~Truthy(Trim(email)) THEN logInCatch(S1, fr, JsError("Email is required"), k)
        ELSE IF ~Truthy(password) THEN logInCatch(S1, fr, JsError("Password is required"), k)
        ELSE Dispatch(S1, Config("axios", "login",
                                 [email |-> Trim(email), password |-> password]),
                      <<fr>> \o k)

\* The catch block shared in shape by googleLogin, requestPasswordReset,
\* resendVerificationEmail, verifyEmail and passwordReset.
errorCatch(S, fr, error, k) ==
    LET authError == handleAuthError(error)
        S1 == Set(S, [isLoading |-> FALSE, error |-> authError])
    IN  Settle([S1 EXCEPT !.ev = [op |-> fr.op, ok |-> FALSE, auth0 |-> fr.auth0,
                                  local |-> error.kind = "error", err |-> authError]],
               k, Thrown(authError))

googleLogin(S, code, k) ==
    LET S1 == Set(S, [isLoading |-> TRUE, error |-> Null])
        fr == OpFrame("googleLogin", S.session.isAuthenticated)
    IN  IF ~Truthy(code)
        THEN errorCatch(S1, fr, JsError("Google authentication code is required"), k)
        ELSE Dispatch(S1, Config("axios", "google", [code |-> code]), <<fr>> \o k)

\* The success path shared in shape by requestPasswordReset,
\* resendVerificationEmail, verifyEmail and passwordReset.
ackThen(S, fr, res, k) ==
    LET S1 == Set(S, [isLoading |-> FALSE])
    IN  Settle([S1 EXCEPT !.ev = [op |-> fr.op, ok |-> TRUE, auth0 |-> fr.auth0]], k, Ok)

requestPasswordReset(S, email, k) ==
    LET S1 == Set(S, [isLoading |-> TRUE, error |-> Null])
        fr == OpFrame("requestPasswordReset", S.session.isAuthenticated)
    IN  IF ~Truthy(Trim(email)) THEN errorCatch(S1, fr, JsError("Email is required"), k)
        ELSE Dispatch(S1, Config("axios", "request-password-reset", [email |-> Trim(email)]),
                      <<fr>> \o k)

resendVerificationEmail(S, email, k) ==
    LET S1 == Set(S, [isLoading |-> TRUE, error |-> Null])
        fr == OpFrame("resendVerificationEmail", S.session.isAuthenticated)
    IN  IF ~Truthy(Trim(email)) THEN errorCatch(S1, fr, JsError("Email is required"), k)
        ELSE Dispatch(S1, Config("axios", "resend-verification", [email |-> Trim(email)]),
                      <<fr>> \o k)

verifyEmail(S, token, k) ==
    LET S1 == Set(S, [isLoading |-> TRUE, error |-> Null])
        fr == OpFrame("verifyEmail", S.session.isAuthenticated)
    IN  IF ~Truthy(token)
        THEN errorCatch(S1, fr, JsError("Verification token is required"), k)
        ELSE Dispatch(S1, Config("axios", "verify", [token |-> token]), <<fr>> \o k)

passwordReset(S, password, confirm_password, token, k) ==
    LET S1 == Set(S, [isLoading |-> TRUE, error |-> Null])
        fr == OpFrame("passwordReset", S.session.isAuthenticated)
    IN  IF ~Truthy(password) THEN errorCatch(S1, fr, JsError("Password is required"), k)
        ELSE IF password # confirm_password
             THEN errorCatch(S1, fr, JsError("Passwords do not match"), k)
        ELSE IF ~Truthy(token) THEN errorCatch(S1, fr, JsError("Reset token is required"), k)
        ELSE Dispatch(S1, Config("axios", "reset-password",
                                 [password |-> password, confirm_password |-> confirm_password,
                                  token |-> token]),
                      <<fr>> \o k)

clearToken(S) == Set(S, [token |-> Null])

clearError(S) == Set(S, [error |-> Null])

(* ----------------------------- refreshToken ---------------------------- *)

\* refreshTokenThen that leaves the cookie as it was.
refreshTokenThenNoCookie(S, fr, res, k) ==
    LET newToken == res.data.token
        S1 == [S EXCEPT !.header = Bearer(newToken)]
        S2 == Set(S1, [token |-> newToken, isLoading |-> FALSE, error |-> Null])
    IN  Settle([S2 EXCEPT !.ev = [op |-> "refreshToken", ok |-> TRUE, token |-> newToken]],
               k, Ok)

refreshTokenThen(S, fr, res, k) ==
    LET newToken == res.data.token
        S1 == [S EXCEPT !.header = Bearer(newToken), !.cookie = newToken]
        S2 == Set(S1, [token |-> newToken, isLoading |-> FALSE, error |-> Null])
    IN  Settle([S2 EXCEPT !.ev = [op |-> "refreshToken", ok |-> TRUE, token |-> newToken]],
               k, Ok)

\* The catch block: logOut is called and not awaited, then the error is thrown.
refreshTokenCatch(S, fr, error, k) ==
    LET authError == handleAuthError(error)
        S1 == logOut(S, <<>>)
    IN  Settle([S1 EXCEPT !.rfail = IF Truthy(S.session.token) THEN "teardown" ELSE "remote",
                          !.ev = [op |-> "refreshToken", ok |-> FALSE, local |-> FALSE,
                                  err |-> authError, sent |-> error.config.body.token]],
               k, Thrown(authError))

refreshToken(S, k) ==
    LET token == S.session.token
    IN  IF ~Truthy(token)
        THEN Settle([S EXCEPT !.rfail = "local",
                              !.ev = [op |-> "refreshToken", ok |-> FALSE, local |-> TRUE,
                                      err |-> JsError("No token to refresh")]],
                    k, JsError("No token to refresh"))
        ELSE Dispatch(Set(S, [isLoading |-> TRUE]),
                      Config("axios", "refresh-token", [token |-> token]),
                      <<OpFrame("refreshToken", S.session.isAuthenticated)>> \o k)

(* ---------------------- interceptors and resumption -------------------- *)

\* The calling surface sees the outcome of what it awaited.
uiResume(S, fr, res) ==
    [S EXCEPT !.ev = [op |-> "seen", of |-> fr.op, ok |-> res.ok, res |-> res]]

\* A handler of a surface resumes after `await <operation>(...)`: its then or
\* catch branch sets what the surface shows, its finally block clears
\* isLoading.
surfaceResume(S, fr, res) ==
    LET view == CASE fr.handler = "VerifyEmail.handleEmailVerification" ->
                        IF res.ok THEN "success" ELSE "error"
                  [] fr.handler = "VerifyEmail.handleResendVerification" ->
                        IF res.ok THEN "loading" ELSE "error"
                  [] fr.handler = "ForgotPassword.handleSubmit" ->
                        IF res.ok /\ S.session.error = Null THEN "submitted" ELSE S.ui.view
                  [] OTHER -> S.ui.view
        S1 == Set([S EXCEPT !.ui.view = view], [isLoading |-> FALSE])
    IN  [S1 EXCEPT !.ev = [op |-> "seen", of |-> fr.op, ok |-> res.ok, res |-> res]]

\* A store operation resumes after `await axios.post(...)`.
opResume(S, fr, res, k) ==
    CASE fr.op = "signUp" ->
            IF res.ok THEN signUpThen(S, fr, res, k) ELSE signUpCatch(S, fr, res, k)
      [] fr.op = "logIn" ->
            IF res.ok THEN logInThen(S, fr, res, k) ELSE logInCatch(S, fr, res, k)
      [] fr.op = "googleLogin" ->
            IF res.ok THEN logInThen(S, fr, res, k) ELSE errorCatch(S, fr, res, k)
      [] fr.op = "refreshToken" ->
            IF res.ok THEN refreshTokenThen(S, fr, res, k)
            ELSE refreshTokenCatch(S, fr, res, k)
      [] OTHER ->
            IF res.ok THEN ackThen(S, fr, res, k) ELSE errorCatch(S, fr, res, k)

\* interceptorResume that never replays: the original error is rejected also
\* after a renewal that succeeded.
interceptorResumeNoReplay(S, fr, res, k) ==
    IF res.ok THEN Adopt(S, k, fr.error) ELSE Adopt(logOut(S, <<>>), k, fr.error)

\* A response interceptor resumes after `await ...refreshToken()`: replay the
\* request with the new token, or log out and reject with the original error.
\* The two interceptors differ only in the instance that replays
\* (config.client).
interceptorResume(S, fr, res, k) ==
    LET error == fr.error
        token == S.session.token
    IN  IF res.ok
        THEN IF Truthy(token)
             THEN Dispatch(S, [error.config EXCEPT !.auth = Bearer(token)], k)
             ELSE Adopt(S, k, error)
        ELSE Adopt(logOut(S, <<>>), k, error)

\* Resume the frame at the head of the stack k with the result res.
Resume(S, k, res) ==
    LET fr == Head(k)
        rest == Tail(k)
    IN  CASE fr.f = "ui" -> uiResume(S, fr, res)
          [] fr.f = "surface" -> surfaceResume(S, fr, res)
          [] fr.f = "op" -> opResume(S, fr, res, rest)
          [] fr.f = "icpt" -> interceptorResume(S, fr, res, rest)
          [] fr.f = "logOut" -> logOutResume(S, fr, rest)

\* axios.interceptors.response of src/store/auth.ts, up to its first await.
\* It runs in the task of the response, where no microtask is pending, so what
\* it returns or rejects with reaches the awaiting frame before anything else
\* runs.
axiosResponseInterceptor(S, res, k) ==
    IF res.ok THEN Resume(S, k, res)
    ELSE IF res.status = 401 /\ ~res.config.retry
    THEN LET originalRequest == [res.config EXCEPT !.retry = TRUE, !.renews = @ + 1]
         IN  refreshToken(S, <<IcptFrame([res EXCEPT !.config = originalRequest])>> \o k)
    ELSE Resume(S, k, res)

\* apiClient's interceptor without the `!originalRequest._retry` test.
apiClientResponseInterceptorNoRetryTest(S, res, k) ==
    IF res.ok THEN Resume(S, k, res)
    ELSE IF res.status = 401
    THEN LET originalRequest == [res.config EXCEPT !.retry = TRUE, !.renews = @ + 1]
         IN  refreshToken(S, <<IcptFrame([res EXCEPT !.config = originalRequest])>> \o k)
    ELSE Resume(S, k, res)

\* apiClient.interceptors.response of src/utility/apiClient.ts, likewise.
apiClientResponseInterceptor(S, res, k) ==
    IF res.ok THEN Resume(S, k, res)
    ELSE IF res.status = 401 /\ ~res.config.retry
    THEN LET originalRequest == [res.config EXCEPT !.retry = TRUE, !.renews = @ + 1]
         IN  refreshToken(S, <<IcptFrame([res EXCEPT !.config = originalRequest])>> \o k)
    ELSE Resume(S, k, res)

\* What the backend puts in a 2xx body: the user of the e-mail address that
\* logged in (account: the one behind a Google code), and a token numbered by
\* the request that issued it.
ResponseData(r, account) ==
    CASE r.config.kind = "login" ->
            [user |-> User(r.config.body.email), token |-> Token(r.config.body.email, r.id)]
      [] r.config.kind = "google" ->
            [user |-> User(account), token |-> Token(account, r.id)]
      [] r.config.kind = "register" -> User(r.config.body.email)
      [] r.config.kind = "refresh-token" ->
            [token |-> Token(r.config.body.token.own, r.id)]
      [] OTHER -> Null

(* ------------------------------- startup ------------------------------- *)

\* persist's hydration: the stored triple is merged into the initial state.
rehydrate(stored) == IF stored = Null THEN initialState ELSE stored @@ initialState

initializeAuth(state) == IF Truthy(state.token) THEN Bearer(state.token) ELSE Null

\* What an earlier run may have left behind: nothing, or a login of "a".
StoredAtStart ==
    {Null,
     [user |-> User(<<"a">>), token |-> Token(<<"a">>, 0), isAuthenticated |-> TRUE]}

Init ==
    \E stored \in StoredAtStart :
        /\ storage = stored
        /\ session = rehydrate(stored)
        /\ cookie = (IF stored = Null THEN Null ELSE stored.token)
        /\ header = initializeAuth(rehydrate(stored))
        /\ net = {}
        /\ mq = <<>>
        /\ nreq = 0
        /\ nops = 0
        /\ ev = NoEv
        /\ rfail = "no"
        /\ fault = "none"
        /\ apiDefault = initializeAuth(rehydrate(stored))
        /\ ui = NoSurface

\* Startup in a browser that may refuse cookie or storage writes.
InitFaulty ==
    \E stored \in StoredAtStart, refused \in Faults :
        /\ storage = stored
        /\ session = rehydrate(stored)
        /\ cookie = (IF stored = Null THEN Null ELSE stored.token)
        /\ header = initializeAuth(rehydrate(stored))
        /\ net = {}
        /\ mq = <<>>
        /\ nreq = 0
        /\ nops = 0
        /\ ev = NoEv
        /\ rfail = "no"
        /\ fault = refused
        /\ apiDefault = initializeAuth(rehydrate(stored))
        /\ ui = NoSurface

(* ----------------------------- route guard ----------------------------- *)

protectedRoutes == {"/dashboard", "/profile", "/settings"}

authRoutes == {"/login", "/signup", "/verify-email"}

\* config.matcher
matcher == protectedRoutes \cup authRoutes

\* A pathname is a sequence of pieces, read one after the other: a first piece
\* shaped like a route, then nothing, a further segment or further characters.
Roots == matcher \cup {"/signin", "/"}
Pathnames ==
    {<<root>> : root \in Roots}
        \cup {<<"/dashboard", "/x">>, <<"/dashboard", "x">>, <<"/signup", "/x">>}

\* pathname.startsWith(route)
startsWith(pathname, route) == Head(pathname) = route

\* What the backend answers to verify-token: {valid: true}, {valid: false},
\* or the call fails.
Verdicts == {"valid", "invalid", "error"}

\* NextResponse.redirect(url), url carrying returnUrl or not; NextResponse.next()
Redirect(to, returnUrl) == [to |-> "redirect", url |-> to, returnUrl |-> returnUrl]
Pass == [to |-> "next"]

\* The middleware function; token is the cookie "auth-token".
middleware(pathname, token, verdict) ==
    IF (\E route \in protectedRoutes : startsWith(pathname, route))
          /\ (~Truthy(token) \/ verdict # "valid")
    THEN Redirect("/signin", pathname)
    ELSE IF (\E route \in authRoutes : pathname = <<route>>) /\ Truthy(token)
    THEN Redirect("/dashboard", Null)
    ELSE Pass

\* The middleware runs for the pathnames config.matcher names, and a matcher
\* entry without a pattern names one pathname only.
RouteGuard(pathname, token, verdict) ==
    IF \E entry \in matcher : pathname = <<entry>>
    THEN middleware(pathname, token, verdict)
    ELSE Pass

(* ------------------------------- actions ------------------------------- *)

Cur ==
    [session |-> session, storage |-> storage, cookie |-> cookie, header |-> header,
     net |-> net, mq |-> mq, nreq |-> nreq, ev |-> NoEv, rfail |-> rfail, fault |-> fault,
     apiDefault |-> apiDefault, ui |-> ui, ovf |-> FALSE]

\* The state a new task starts in.
Task == [Cur EXCEPT !.rfail = "no"]

Commit(S) ==
    /\ ~S.ovf
    /\ session' = S.session
    /\ storage' = S.storage
    /\ cookie' = S.cookie
    /\ header' = S.header
    /\ net' = S.net
    /\ mq' = S.mq
    /\ nreq' = S.nreq
    /\ ev' = S.ev
    /\ rfail' = S.rfail
    /\ fault' = fault
    /\ apiDefault' = S.apiDefault
    /\ ui' = S.ui

\* A calling surface may start an operation when the event loop is idle.
MayCall == mq = <<>> /\ nops < MaxOps

CallSignUp ==
    /\ MayCall
    /\ \E name \in Names, email \in Emails, password \in Passwords, confirm \in Confirms :
           Commit(signUp(Task, name, email, password, confirm, <<UiFrame("signUp")>>))
    /\ nops' = nops + 1

CallLogIn ==
    /\ MayCall
    /\ \E email \in Emails, password \in Passwords :
           Commit(logIn(Task, email, password, <<UiFrame("logIn")>>))
    /\ nops' = nops + 1

CallGoogleLogin ==
    /\ MayCall
    /\ \E code \in Codes : Commit(googleLogin(Task, code, <<UiFrame("googleLogin")>>))
    /\ nops' = nops + 1

CallLogOut ==
    /\ MayCall
    /\ Commit(logOut(Task, <<UiFrame("logOut")>>))
    /\ nops' = nops + 1

CallRequestPasswordReset ==
    /\ MayCall
    /\ \E email \in Emails :
           Commit(requestPasswordReset(Task, email, <<UiFrame("requestPasswordReset")>>))
    /\ nops' = nops + 1

CallResendVerificationEmail ==
    /\ MayCall
    /\ \E email \in Emails :
           Commit(resendVerificationEmail(Task, email, <<UiFrame("resendVerificationEmail")>>))
    /\ nops' = nops + 1

CallVerifyEmail ==
    /\ MayCall
    /\ \E token \in Codes : Commit(verifyEmail(Task, token, <<UiFrame("verifyEmail")>>))
    /\ nops' = nops + 1

CallPasswordReset ==
    /\ MayCall
    /\ \E password \in Passwords, confirm \in Confirms, token \in Codes :
           Commit(passwordReset(Task, password, confirm, token, <<UiFrame("passwordReset")>>))
    /\ nops' = nops + 1

CallClearToken ==
    /\ MayCall
    /\ Commit(clearToken(Task))
    /\ nops' = nops + 1

CallClearError ==
    /\ MayCall
    /\ Commit(clearError(Task))
    /\ nops' = nops + 1

CallRefreshToken ==
    /\ MayCall
    /\ Commit(refreshToken(Task, <<UiFrame("refreshToken")>>))
    /\ nops' = nops + 1

\* An application call through apiClient.
CallApi ==
    /\ MayCall
    /\ Commit(Dispatch(Task, Config("api", "app", Null), <<UiFrame("app")>>))
    /\ nops' = nops + 1

\* The answer to the request r reaches the response interceptor of the
\* instance that sent it.
Answer(r, status, msg, field, account) ==
    LET S == [Task EXCEPT !.net = @ \ {r}]
        res == IF status = 200 THEN Response(r.config, ResponseData(r, account))
               ELSE RequestError(r.config, status, msg, field)
    IN  IF r.config.client = "axios"
        THEN Commit(axiosResponseInterceptor(S, res, r.k))
        ELSE Commit(apiClientResponseInterceptor(S, res, r.k))

\* The backend answers a request in flight (or the transport gives up on it).
Respond ==
    /\ mq = <<>>
    /\ \E r \in net, status \in Statuses, msg \in Messages, account \in GoogleAccounts :
           /\ status \in {200, NoResponse} => msg = ""
           /\ Answer(r, status, msg, "", account)
    /\ nops' = nops

\* The backend answers a request in flight with a body that may name a field.
RespondField ==
    /\ mq = <<>>
    /\ \E r \in net, status \in FieldStatuses, msg \in Messages, field \in Fields,
          account \in GoogleAccounts :
           /\ status = 200 => msg = ""
           /\ status \notin {409, 422} => field = ""
           /\ Answer(r, status, msg, field, account)
    /\ nops' = nops

\* The next microtask runs.
RunMicrotask ==
    /\ mq # <<>>
    /\ LET e == Head(mq)
           S == [Cur EXCEPT !.mq = Tail(mq)]
       IN  IF e.d > 0
           THEN Commit([S EXCEPT !.mq = Append(@, [e EXCEPT !.d = @ - 1])])
           ELSE Commit(Resume(S, e.k, e.res))
    /\ nops' = nops

\* The browser navigates: the middleware sees the pathname and the cookie.
Navigate ==
    /\ mq = <<>>
    /\ \E pathname \in Pathnames, verdict \in Verdicts :
           Commit([Task EXCEPT !.ev = [op |-> "navigate", pathname |-> pathname,
                                       token |-> cookie, verdict |-> verdict,
                                       result |-> RouteGuard(pathname, cookie, verdict)]])
    /\ nops' = nops

\* The page is loaded anew between two tasks: the modules run again, the
\* store is created and hydrated from localStorage, initializeAuth runs and
\* apiClient is created.  Requests in flight are abandoned; cookie and
\* localStorage stay.
Restart ==
    /\ mq = <<>>
    /\ LET state == rehydrate(storage)
       IN  Commit([Task EXCEPT !.session = state,
                               !.header = initializeAuth(state),
                               !.apiDefault = initializeAuth(state),
                               !.net = {},
                               !.ev = [op |-> "restart", before |-> session]])
    /\ nops' = nops

Next ==
    \/ CallSignUp
    \/ CallLogIn
    \/ CallGoogleLogin
    \/ CallLogOut
    \/ CallRequestPasswordReset
    \/ CallResendVerificationEmail
    \/ CallVerifyEmail
    \/ CallPasswordReset
    \/ CallClearToken
    \/ CallClearError
    \/ CallRefreshToken
    \/ CallApi
    \/ Respond
    \/ RunMicrotask

Spec == Init /\ [][Next]_vars


\* The operations on the credential alone.
NextSession ==
    \/ CallLogIn
    \/ CallGoogleLogin
    \/ CallLogOut
    \/ CallClearToken
    \/ CallRefreshToken
    \/ CallApi
    \/ Respond
    \/ RunMicrotask

SpecSession == Init /\ [][NextSession]_vars

\* Registration alone, from either start.
NextSignUp ==
    \/ CallSignUp
    \/ RespondField
    \/ RunMicrotask

SpecSignUp == Init /\ [][NextSignUp]_vars

\* Signing in and out in a browser that may refuse cookie or storage writes.
NextLogOut ==
    \/ CallLogIn
    \/ CallLogOut
    \/ CallRefreshToken
    \/ Respond
    \/ RunMicrotask

SpecLogOut == InitFaulty /\ [][NextLogOut]_vars

\* Gateway requests, next to a session that may begin and end.
NextGateway ==
    \/ CallLogIn
    \/ CallLogOut
    \/ CallApi
    \/ Respond
    \/ RunMicrotask

SpecGateway == Init /\ [][NextGateway]_vars

\* Navigation, next to a session that may begin and end.
NextGuard ==
    \/ CallLogIn
    \/ CallLogOut
    \/ Respond
    \/ RunMicrotask
    \/ Navigate

SpecGuard == Init /\ [][NextGuard]_vars

\* Renewals alone: the credential changes by renewal only.
NextRenewal ==
    \/ CallRefreshToken
    \/ CallApi
    \/ Respond
    \/ RunMicrotask

SpecRenewal == Init /\ [][NextRenewal]_vars

\* The operations on the credential, next to page reloads.
NextRestart ==
    \/ CallLogIn
    \/ CallLogOut
    \/ CallClearToken
    \/ CallRefreshToken
    \/ Respond
    \/ RunMicrotask
    \/ Restart

SpecRestart == Init /\ [][NextRestart]_vars

\* The operations that only ask the backend for something, alone.
NextAck ==
    \/ CallRequestPasswordReset
    \/ CallResendVerificationEmail
    \/ CallVerifyEmail
    \/ CallPasswordReset
    \/ Respond
    \/ RunMicrotask

SpecAck == Init /\ [][NextAck]_vars

(* ------------------------------ surfaces ------------------------------- *)

\* The surfaces that offer a resend: the page shown after signing up, the
\* component that verifies the token of a link, the forgot-password page.
Surfaces == {"VerifyEmailSignup", "VerifyEmail", "ForgotPassword"}

\* The resend button of the page shown after signing up is disabled from
\* this count on.
ResendLimit == 5

\* value.state.user?.email || "" of the record in localStorage
StoredEmail(stored) ==
    IF stored = Null THEN <<>>
    ELSE IF stored.user = Null THEN <<>> ELSE stored.user.email

\* An address the forgot-password form accepts (z.string().email).
FormEmails == {<<"b">>}

\* A surface is mounted in a browser where an earlier run may have left a
\* session behind; its first effect reads the email of the record.
InitResend ==
    \E stored \in StoredAtStart, name \in Surfaces :
        /\ storage = stored
        /\ session = rehydrate(stored)
        /\ cookie = (IF stored = Null THEN Null ELSE stored.token)
        /\ header = initializeAuth(rehydrate(stored))
        /\ net = {}
        /\ mq = <<>>
        /\ nreq = 0
        /\ nops = 0
        /\ ev = NoEv
        /\ rfail = "no"
        /\ fault = "none"
        /\ apiDefault = initializeAuth(rehydrate(stored))
        /\ ui = CASE name = "VerifyEmailSignup" -> Surface(name, StoredEmail(stored), "page")
                  [] name = "VerifyEmail" -> Surface(name, StoredEmail(stored), "mounted")
                  [] name = "ForgotPassword" -> Surface(name, <<>>, "form")

\* VerifyEmail's second effect: handleEmailVerification, up to its await.
handleEmailVerification(S, token) ==
    LET S1 == Set(clearError(S), [isLoading |-> TRUE])
    IN  verifyEmail([S1 EXCEPT !.ui.view = "loading"], token,
                    <<SurfaceFrame("VerifyEmail.handleEmailVerification", "verifyEmail")>>)

\* handleResendVerification of the page shown after signing up, up to its
\* await.
handleResendVerificationSignup(S) ==
    LET S1 == Set(clearError(S), [isLoading |-> TRUE])
        S2 == [S1 EXCEPT !.ui.resendCount = @ + 1, !.ui.resends = @ + 1]
    IN  resendVerificationEmail(
            S2, S.ui.email,
            <<SurfaceFrame("VerifyEmailSignup.handleResendVerification",
                           "resendVerificationEmail")>>)

\* handleResendVerification of the VerifyEmail component, up to its await.
handleResendVerification(S) ==
    LET S1 == Set(clearError(S), [isLoading |-> TRUE])
        S2 == [S1 EXCEPT !.ui.resends = @ + 1]
    IN  resendVerificationEmail(
            S2, S.ui.email,
            <<SurfaceFrame("VerifyEmail.handleResendVerification",
                           "resendVerificationEmail")>>)

\* handleSubmit of the forgot-password page with a form that validates, up
\* to its await.
handleSubmit(S, email) ==
    LET S1 == clearError(S)
    IN  requestPasswordReset([S1 EXCEPT !.ui.email = email], email,
                             <<SurfaceFrame("ForgotPassword.handleSubmit",
                                            "requestPasswordReset")>>)

\* handleResendVerificationEmail of the forgot-password page: the operation
\* is called and not awaited, so the finally block runs in the same task.
handleResendVerificationEmail(S) ==
    LET S1 == Set(S, [isLoading |-> TRUE])
        S2 == resendVerificationEmail([S1 EXCEPT !.ui.resends = @ + 1], S.ui.email, <<>>)
    IN  Set(S2, [isLoading |-> FALSE])

\* VerifyEmail shows its resend buttons in the error view, which it also
\* enters when it renders with an error in the store.
ResendShown == ui.view = "error" \/ session.error # Null

MountVerifyEmail ==
    /\ mq = <<>>
    /\ ui.surface = "VerifyEmail" /\ ui.view = "mounted"
    /\ \E token \in Codes : Commit(handleEmailVerification(Task, token))
    /\ nops' = nops

ClickResendSignup ==
    /\ mq = <<>>
    /\ ui.surface = "VerifyEmailSignup"
    /\ ~(session.isLoading \/ ui.resendCount >= ResendLimit)
    /\ ui.resends < MaxResends
    /\ Commit(handleResendVerificationSignup(Task))
    /\ nops' = nops

ClickResendVerifyEmail ==
    /\ mq = <<>>
    /\ ui.surface = "VerifyEmail" /\ ui.view # "mounted" /\ ResendShown
    /\ ui.resends < MaxResends
    /\ Commit(handleResendVerification(Task))
    /\ nops' = nops

SubmitForgotPassword ==
    /\ mq = <<>>
    /\ ui.surface = "ForgotPassword" /\ ui.view = "form"
    /\ ~session.isLoading
    /\ \E email \in FormEmails : Commit(handleSubmit(Task, email))
    /\ nops' = nops

ClickResendForgotPassword ==
    /\ mq = <<>>
    /\ ui.surface = "ForgotPassword" /\ ui.view = "submitted"
    /\ ui.resends < MaxResends
    /\ Commit(handleResendVerificationEmail(Task))
    /\ nops' = nops

\* One surface with a resend button, from its mount on.
NextResend ==
    \/ MountVerifyEmail
    \/ ClickResendSignup
    \/ ClickResendVerifyEmail
    \/ SubmitForgotPassword
    \/ ClickResendForgotPassword
    \/ Respond
    \/ RunMicrotask

SpecResend == InitResend /\ [][NextResend]_vars

\* What handleAuthError may be handed: an axios error without a response, an
\* axios error with a response (status, body message, body field), an Error,
\* or something that is neither.
ClassifiedStatuses == {400, 401, 403, 404, 409, 418, 422, 429, 500, 501, 502, 503, 504}

Caught ==
    {RequestError(Config("axios", "login", Null), NoResponse, "", "")}
    \cup {RequestError(Config("axios", "login", Null), status, msg, field) :
              status \in ClassifiedStatuses, msg \in Messages, field \in Fields}
    \cup {JsError(m) : m \in {"Network Error", "Email is required", "No token to refresh"}}
    \cup {[ok |-> FALSE, kind |-> "other", status |-> 0, msg |-> "", field |-> ""]}

\* A catch block is about to classify what it caught.
InitClassify ==
    \E error \in Caught :
        /\ storage = Null
        /\ session = rehydrate(Null)
        /\ cookie = Null
        /\ header = initializeAuth(rehydrate(Null))
        /\ net = {}
        /\ mq = <<>>
        /\ nreq = 0
        /\ nops = 0
        /\ ev = [op |-> "caught", error |-> error]
        /\ rfail = "no"
        /\ fault = "none"
        /\ apiDefault = initializeAuth(rehydrate(Null))
        /\ ui = NoSurface

\* const authError = handleAuthError(error)
Classify ==
    /\ ev.op = "caught"
    /\ ev' = [op |-> "classified", error |-> ev.error, result |-> handleAuthError(ev.error)]
    /\ UNCHANGED <<session, storage, cookie, header, net, mq, nreq, nops, rfail, fault,
                   apiDefault, ui>>

NextClassify == Classify

SpecClassify == InitClassify /\ [][NextClassify]_vars

(* ------------------------------- claims -------------------------------- *)

Range(q) == {q[i] : i \in DOMAIN q}

\* Every frame suspended somewhere: under a request in flight or in the
\* microtask queue.
Frames ==
    UNION {Range(r.k) : r \in net} \cup UNION {Range(e.k) : e \in Range(mq)}

\* The config of every request in flight and of every request an interceptor
\* is holding for a replay.
Configs ==
    {r.config : r \in net} \cup {fr.error.config : fr \in {g \in Frames : g.f = "icpt"}}

\* C1: single-flight renewal: at most one POST refresh-token is in flight at a
\* time, however many callers ask for a renewal.
C1_SingleFlight ==
    Cardinality({r \in net : r.config.kind = "refresh-token"}) <= 1

\* C2: once a refreshToken call has failed against the backend while a
\* credential was held, and every continuation it left behind has run, the
\* Session is empty and the record "auth-storage" is gone from localStorage.
C2_RefreshFailureCascades ==
    (rfail = "teardown" /\ mq = <<>>) => (EmptySession(session) /\ storage = Null)

\* C3: retry-once bound: no request is dispatched more than twice, no
\* interceptor starts more than one renewal for a request, a second dispatch is
\* always the marked replay, and no interceptor waits on a renewal for a
\* request that was already replayed.
C3_RetryOnce ==
    /\ \A c \in Configs : c.tries <= 2 /\ c.renews <= 1 /\ (c.tries = 2 => c.retry)
    /\ \A fr \in Frames : fr.f = "icpt" => fr.error.config.tries = 1

\* C3 witness: the caller of a gateway request sees the 401 of its one replay.
C3_Witness ==
    /\ ev.op = "seen" /\ ev.of = "app" /\ ~ev.ok
    /\ ev.res.status = 401
    /\ ev.res.config.tries = 2 /\ ev.res.config.renews = 1

\* C4: authenticated implies that a credential is held.
C4_AuthenticatedHasToken == session.isAuthenticated => session.token # Null

\* C5: the user and the credential of the Session come from one login: the
\* credential was issued to (or renewed for) the user held.
C5_NoMixedFields ==
    (session.user # Null /\ session.token # Null)
        => session.token.own = session.user.email

\* C6: a logIn that fails, called on an authenticated Session, leaves the
\* Session without user and credential, not authenticated, and the default
\* Authorization header removed.
C6_FailedLogInClears ==
    (ev.op = "logIn" /\ ~ev.ok /\ ev.auth0)
        => /\ ~session.isAuthenticated
           /\ session.token = Null
           /\ session.user = Null
           /\ header = Null

\* C6 witness: a logIn called on an authenticated Session has just failed on a
\* backend error.
C6_Witness ==
    ev.op = "logIn" /\ ~ev.ok /\ ev.auth0 /\ ~ev.local /\ ev.err.statusCode = 500

\* C7: logOut called on an empty Session changes nothing (Session, persisted
\* record, cookie, header), suspends nowhere and resolves.
C7_IdempotentLogOut ==
    [][(CallLogOut /\ EmptySession(session))
          => /\ session' = session
             /\ storage' = storage
             /\ cookie' = cookie
             /\ header' = header
             /\ mq' = <<[k |-> <<UiFrame("logOut")>>, res |-> Ok, d |-> 0]>>
             /\ ev'.op = "logOut" /\ ev'.ok]_vars

\* C7 witness: a logOut called on an empty Session has just resolved.
C7_Witness == ev.op = "logOut" /\ ev.ok /\ ev.empty0

\* C8: no register request is sent for a signUp with an empty name, e-mail,
\* password or confirmation, or with a confirmation that differs.
C8_ValidationShortCircuits ==
    \A r \in net :
        r.config.kind = "register"
            => /\ r.config.body.name # <<>>
               /\ r.config.body.email # <<>>
               /\ r.config.body.password # <<>>
               /\ r.config.body.confirm_password # <<>>
               /\ r.config.body.password = r.config.body.confirm_password

\* The kind of the error taxonomy a code of handleAuthError stands for.
KindOf(code) ==
    CASE code = "VALIDATION_ERROR" -> "VALIDATION"
      [] code = "UNKNOWN_ERROR" -> "UNKNOWN"
      [] OTHER -> code

\* C9: a local precondition violation in signUp or passwordReset throws an
\* error of kind VALIDATION and leaves the same error in the Session.
C9_ValidationKind ==
    (ev.op \in {"signUp", "passwordReset"} /\ ~ev.ok /\ ev.local)
        => (KindOf(ev.err.code) = "VALIDATION" /\ session.error = ev.err)

\* C10: a logIn answered 200 {user, token} leaves the Session authenticated
\* with that user and token, not loading and without error, the persisted
\* record with the same triple, the cookie "auth-token" holding the token and
\* the default Authorization header "Bearer <token>".
C10_LogInSuccess ==
    (ev.op = "logIn" /\ ev.ok)
        => /\ session = [user |-> ev.user, token |-> ev.token, isAuthenticated |-> TRUE,
                         isLoading |-> FALSE, error |-> Null]
           /\ storage = [user |-> ev.user, token |-> ev.token, isAuthenticated |-> TRUE]
           /\ cookie = ev.token
           /\ header = Bearer(ev.token)

\* C10 witness: a logIn has just succeeded.
C10_Witness == ev.op = "logIn" /\ ev.ok /\ ev.token # Null

\* What the latest settlement threw to whoever awaits it.
ThrownNow == IF mq = <<>> THEN Null ELSE mq[Len(mq)].res

\* C11: a logIn whose request the backend answered with 401 ends rejected from
\* any starting Session: the Session is not authenticated and holds no
\* credential, its error is the UNAUTHORIZED error of that answer, and the
\* same error is thrown to the caller.
C11_LogInUnauthorized ==
    (ev.op = "logIn" /\ ev.marked)
        => /\ ~ev.ok
           /\ ~session.isAuthenticated
           /\ session.token = Null
           /\ session.error = ev.err
           /\ ev.err.code = "UNAUTHORIZED"
           /\ ThrownNow = Thrown(ev.err)

\* apiClient's response interceptor is about to resume after a renewal that
\* succeeded.
Renewed ==
    /\ mq # <<>>
    /\ Head(mq).d = 0
    /\ Head(Head(mq).k).f = "icpt"
    /\ Head(Head(mq).k).error.config.client = "api"
    /\ Head(mq).res.ok

\* C12: transparent recovery: when the renewal started for a gateway request
\* answered 401 succeeds, the request is dispatched again, once, carrying
\* "Bearer <the renewed token>"; nothing else is ever dispatched a second time;
\* and the answer to the replay goes to the original caller as it is.
C12_TransparentRecovery ==
    [][/\ (Renewed /\ vars' # vars)
            => /\ ev.op = "refreshToken" /\ ev.ok
               /\ net' = net \cup
                     {[id |-> nreq + 1,
                       config |-> [Head(Head(mq).k).error.config
                                       EXCEPT !.auth = Bearer(ev.token), !.tries = 2],
                       k |-> Tail(Head(mq).k)]}
               /\ nreq' = nreq + 1
       /\ \A r \in net' \ net :
              (r.config.client = "api" /\ r.config.tries > 1)
                  => (Renewed /\ r.config.tries = 2 /\ r.config.retry)
       /\ \A r \in net \ net' :
              (r.config.client = "api" /\ r.config.retry)
                  => /\ ev'.op = "seen" /\ ev'.of = "app"
                     /\ ev'.res.config = r.config
                     /\ ev'.ok = (ev'.res.status = 200)]_vars

\* C12 witness: the caller of a gateway request has received the 200 of the
\* replay that carried the renewed token.
C12_Witness ==
    /\ ev.op = "seen" /\ ev.of = "app" /\ ev.ok
    /\ ev.res.config.tries = 2
    /\ ev.res.config.auth = Bearer(session.token)
    /\ session.token.n > 0

\* C13: a signUp whose request is answered 409 with field "email" throws a
\* CONFLICT error naming the field email, leaves the same error in the Session
\* and leaves the Session without user.
C13_SignUpConflict ==
    (ev.op = "signUp" /\ ~ev.ok /\ ~ev.local /\ ev.res.status = 409 /\ ev.res.field = "email")
        => /\ ev.err.code = "CONFLICT"
           /\ ev.err.field = "email"
           /\ ev.err.message = OrElse(ev.res.msg, "Resource already exists")
           /\ session.error = ev.err
           /\ ThrownNow = Thrown(ev.err)
           /\ session.user = Null

\* C13 witness: a signUp called on a Session that held a user has just been
\* refused with 409 {field: "email"}.
C13_Witness ==
    /\ ev.op = "signUp" /\ ~ev.ok /\ ~ev.local /\ ev.auth0
    /\ ev.res.status = 409 /\ ev.res.field = "email"
    /\ session.error.code = "CONFLICT"

\* A calling surface has just called signUp: the call failed on its input or
\* sent its register request.
SignUpCalled ==
    /\ nops' = nops + 1
    /\ (ev'.op = "signUp" \/ \E r \in net' \ net : r.config.kind = "register")

\* C14: the signUp call creates no credential, cookie or Authorization header
\* (neither when it is called nor when its request is answered 2xx), and after
\* the 2xx answer the Session holds the returned user and is not authenticated.
C14_SignUpSuccess ==
    [][/\ SignUpCalled
            => (session'.token = session.token /\ cookie' = cookie /\ header' = header)
       /\ \A r \in net \ net' :
              (r.config.kind = "register" /\ ev'.op = "signUp" /\ ev'.ok)
                  => /\ ev'.res.data = User(r.config.body.email)
                     /\ session'.user = ev'.res.data
                     /\ ~session'.isAuthenticated
                     /\ session'.token = session.token
                     /\ cookie' = cookie
                     /\ header' = header]_vars

\* C14 witness: a signUp has just succeeded and the Session holds its user,
\* no credential, no cookie and no header.
C14_Witness ==
    /\ ev.op = "signUp" /\ ev.ok
    /\ session.user = ev.res.data /\ session.user # Null
    /\ session.token = Null /\ cookie = Null /\ header = Null

\* C15: a googleLogin that fails leaves the Session without user and
\* credential, not authenticated, and the default Authorization header
\* removed, as a failed logIn does.
C15_GoogleLoginFailureClears ==
    (ev.op = "googleLogin" /\ ~ev.ok)
        => /\ session.user = Null
           /\ session.token = Null
           /\ ~session.isAuthenticated
           /\ header = Null

\* C16: logOut never throws: every logOut call resolves, and whoever awaits it
\* sees it resolve, also when Cookies.remove or localStorage.removeItem
\* throws.
C16_LogOutNeverThrows ==
    /\ ev.op = "logOut" => ev.ok
    /\ (ev.op = "seen" /\ ev.of = "logOut") => ev.ok

\* C16 witness: a logOut whose removal threw has resolved to its caller, with
\* the credential still in the Session.
C16_Witness ==
    /\ ev.op = "seen" /\ ev.of = "logOut" /\ ev.ok
    /\ fault # "none"
    /\ session.token # Null

\* C17: when a logOut called with a credential held completes, the record
\* "auth-storage" is gone from localStorage, the Session is empty, the cookie
\* is removed and the default Authorization header is removed.
C17_LogOutClears ==
    (ev.op = "logOut" /\ ev.done = "all")
        => /\ storage = Null
           /\ EmptySession(session)
           /\ cookie = Null
           /\ header = Null

\* C18: refreshToken called without a credential fails with a structured
\* error of kind NO_SESSION.
C18_RefreshWithoutCredential ==
    (ev.op = "refreshToken" /\ ~ev.ok /\ ev.local)
        => (ev.err.kind = "auth" /\ KindOf(ev.err.code) = "NO_SESSION")

\* C19: a renewal is never retried: no refresh-token request is dispatched a
\* second time and no interceptor starts a renewal for one.
C19_RenewalNotRetried ==
    \A c \in Configs : c.kind = "refresh-token" => (c.tries <= 1 /\ c.renews = 0)

\* C20: when the renewal started for a gateway request answered 401 fails,
\* the caller is rejected with that 401, the request has not been replayed,
\* and the Session is logged out: not authenticated, no credential.
C20_RejectedAfterFailedRenewal ==
    (ev.op = "seen" /\ ev.of = "app" /\ Marked(ev.res) /\ ev.res.config.tries = 1)
        => /\ ~ev.ok
           /\ ev.res.kind = "axios" /\ ev.res.status = 401
           /\ ~session.isAuthenticated
           /\ session.token = Null

\* C21: dual-channel error propagation: every failure of signUp, logIn,
\* googleLogin, refreshToken, requestPasswordReset, resendVerificationEmail,
\* verifyEmail and passwordReset leaves its error in the Session and throws
\* the same error to the caller.
C21_DualChannel ==
    (ev.op \in {"signUp", "logIn", "googleLogin", "refreshToken", "requestPasswordReset",
                "resendVerificationEmail", "verifyEmail", "passwordReset"} /\ ~ev.ok)
        => /\ session.error = ev.err
           /\ ThrownNow = Thrown(ev.err)

\* C22: every request apiClient dispatches carries "Bearer <t>" for the token
\* t the store holds at that moment, and no Authorization header when the
\* store holds none.
C22_GatewayCarriesCredential ==
    [][\A r \in net' \ net :
           r.config.client = "api"
               => r.config.auth = (IF Truthy(session.token) THEN Bearer(session.token)
                                   ELSE Null)]_vars

\* A protected path: a protected route or a path under one.
ProtectedPath(pathname) ==
    /\ Head(pathname) \in {"/dashboard", "/profile", "/settings"}
    /\ (Len(pathname) = 1 \/ pathname[2] = "/x")

\* The auth-only pages: sign-in (the page /signin, and /login as the
\* middleware names it), sign-up, verify-email.
AuthOnlyPath(pathname) ==
    pathname \in {<<"/signin">>, <<"/login">>, <<"/signup">>, <<"/verify-email">>}

\* The visitor of the latest navigation holds a cookie that the backend
\* verifies as valid.
Verified == ev.token # Null /\ ev.verdict = "valid"

C24_GuardRedirectsAuthenticated ==
    (ev.op = "navigate" /\ AuthOnlyPath(ev.pathname) /\ Verified)
        => ev.result = Redirect("/dashboard", Null)

\* C25: every other navigation passes through unchanged.
C25_GuardPassesOthers ==
    (/\ ev.op = "navigate"
     /\ ~(ProtectedPath(ev.pathname) /\ ~Verified)
     /\ ~(AuthOnlyPath(ev.pathname) /\ Verified))
        => ev.result = Pass

\* C26: persistence round trip: a page reload gives the Session the user,
\* token and isAuthenticated it held just before, not loading and without
\* error, and the default Authorization header "Bearer <token>" exactly when a
\* token was rehydrated.
C26_PersistenceRoundTrip ==
    [][Restart
          => /\ session'.user = session.user
             /\ session'.token = session.token
             /\ session'.isAuthenticated = session.isAuthenticated
             /\ ~session'.isLoading
             /\ session'.error = Null
             /\ header' = (IF session'.token # Null THEN Bearer(session'.token) ELSE Null)]_vars

\* C26 witness: a reload has just rehydrated a credential that a logIn of this
\* run had stored, over a Session that was loading.
C26_Witness ==
    /\ ev.op = "restart"
    /\ ev.before.isLoading
    /\ session.token # Null /\ session.token.n > 0
    /\ session.token = ev.before.token
    /\ header = Bearer(session.token)

\* C27: teardown precedes the re-throw: when the caller of a refreshToken
\* whose renewal failed (with a credential still held) observes the rejection,
\* the Session is already empty and the cookie and the persisted record are
\* already removed.
C27_TeardownBeforeRethrow ==
    (ev.op = "seen" /\ ev.of = "refreshToken" /\ ~ev.ok /\ rfail = "teardown")
        => /\ EmptySession(session)
           /\ cookie = Null
           /\ storage = Null

\* C28: no double invalidation: a renewal that fails after the credential it
\* sent has been superseded by a renewed one does not start a teardown.
C28_NoDoubleInvalidation ==
    (/\ ev.op = "refreshToken" /\ ~ev.ok /\ ~ev.local
     /\ session.token # Null
     /\ session.token # ev.sent
     /\ session.token.own = ev.sent.own)
        => rfail # "teardown"

\* The Session, the cookie and the default header hold no credential.
NoCredential == session.token = Null /\ cookie = Null /\ header = Null

\* C29: logOut is final for calls already in flight: when a logIn, googleLogin
\* or refreshToken that was called on an authenticated Session is answered
\* after the Session, cookie and header have been cleared, the answer brings no
\* credential back.
C29_LogOutIsFinal ==
    [][\A r \in net \ net' :
           (/\ r.config.kind \in {"login", "google", "refresh-token"}
            /\ Head(r.k).f = "op" /\ Head(r.k).auth0
            /\ NoCredential /\ ~session.isAuthenticated)
               => NoCredential']_vars

\* The renewals stacked up behind a request: the refreshToken calls waiting,
\* one for the other, on its answer.
RECURSIVE RenewalDepth(_)
RenewalDepth(k) ==
    IF k = <<>> THEN 0
    ELSE (IF Head(k).f = "op" /\ Head(k).op = "refreshToken" THEN 1 ELSE 0)
             + RenewalDepth(Tail(k))

\* C30: termination: renewals do not trigger renewals without end: the chain
\* of renewals waiting on one request stays below the number of requests a run
\* may send at all.
C30_BoundedRenewals ==
    \A r \in net : RenewalDepth(r.k) < MaxCalls

\* C31: once every operation has settled (no request in flight, no
\* continuation pending), the Session's loading flag is false.
C31_LoadingReleased ==
    (net = {} /\ mq = <<>>) => ~session.isLoading

\* C32: while a request of a session operation is in flight, the Session's
\* loading flag is true.
C32_LoadingCoversCalls ==
    (\E r \in net : r.config.client = "axios") => session.isLoading

\* C33: a request of a session operation is outside the renew-and-replay
\* wrapper: no response interceptor holds it for a renewal, and it is never
\* sent a second time.
C33_AuthCallsNotWrapped ==
    \A c \in Configs : c.client = "axios" => ~c.retry /\ c.tries = 1

\* C34: requestPasswordReset, resendVerificationEmail, verifyEmail and
\* passwordReset change nothing but isLoading and error: no step of theirs
\* changes user, token or isAuthenticated, the cookie, or the triple the
\* persisted record yields.
C34_AckOperationsFrame ==
    [][/\ partialize(session') = partialize(session)
       /\ cookie' = cookie
       /\ partialize(rehydrate(storage')) = partialize(rehydrate(storage))]_vars

\* C35: a refreshToken that succeeds replaces the credential and nothing
\* else: the step in which it succeeds leaves the new token in the Session,
\* in the cookie and in the default Authorization header, and leaves user and
\* isAuthenticated as they were; the step that sends its request changes
\* neither of them, nor the credential.
C35_RefreshReplacesCredentialOnly ==
    [][/\ (ev'.op = "refreshToken" /\ ev'.ok) =>
              /\ session'.token = ev'.token
              /\ cookie' = ev'.token
              /\ header' = Bearer(ev'.token)
              /\ session'.user = session.user
              /\ session'.isAuthenticated = session.isAuthenticated
       /\ (\E r \in net' \ net : r.config.kind = "refresh-token") =>
              /\ partialize(session') = partialize(session)
              /\ cookie' = cookie
              /\ header' = header]_vars

\* A renewal has just succeeded for a signed-in user: the new token is
\* everywhere, the user is still there.
C35_Witness ==
    /\ ev.op = "refreshToken" /\ ev.ok
    /\ session.token = ev.token /\ cookie = ev.token /\ header = Bearer(ev.token)
    /\ session.user # Null /\ session.isAuthenticated

\* C36: between operations (nothing in flight, nothing pending) the
\* 'auth-token' cookie the route guard reads is the Session's credential:
\* absent when the Session holds none, the same token otherwise.
C36_CookieAgreesWithSession ==
    (net = {} /\ mq = <<>>) => cookie = session.token

\* C37: every step that changes the Session, and every step that writes the
\* persisted record, leaves a record of exactly user, token and
\* isAuthenticated with the values the Session then holds; isLoading and
\* error are not in it.
C37_PersistedProjection ==
    [][(session' # session \/ (storage' # storage /\ storage' # Null)) =>
           /\ DOMAIN storage' = {"user", "token", "isAuthenticated"}
           /\ storage' = partialize(session')]_vars

\* A logIn has just failed: the Session holds an error, the record written
\* with it holds the three fields only.
C37_Witness ==
    /\ ev.op = "logIn" /\ ~ev.ok
    /\ session.error # Null
    /\ storage = partialize(session)

\* The result for a failure without a response.
Unreachable == handleAuthError(RequestError(Config("axios", "login", Null), NoResponse, "", ""))

\* C39: handleAuthError classifies by (response?, status, body): no response
\* is NETWORK_ERROR; 401, 403, 404, 429 are UNAUTHORIZED, FORBIDDEN,
\* NOT_FOUND, RATE_LIMITED; 409 is CONFLICT with the body's field; 422 is
\* VALIDATION; every 5xx is SERVER_ERROR; a status that is none of these (nor
\* 400) is UNKNOWN; and the result for a 401 differs from the result for no
\* response in code and in message.
C39_Classification ==
    (ev.op = "classified" /\ ev.error.kind = "axios") =>
        LET status == ev.error.status
            result == ev.result
        IN  /\ status = NoResponse => result.code = "NETWORK_ERROR"
            /\ status = 401 => result.code = "UNAUTHORIZED"
            /\ status = 403 => result.code = "FORBIDDEN"
            /\ status = 404 => result.code = "NOT_FOUND"
            /\ status = 409 => (result.code = "CONFLICT" /\ result.field = ev.error.field)
            /\ status = 422 => KindOf(result.code) = "VALIDATION"
            /\ status = 429 => result.code = "RATE_LIMITED"
            /\ status \in 500..599 => result.code = "SERVER_ERROR"
            /\ status \notin {NoResponse, 400, 401, 403, 404, 409, 422, 429} \cup (500..599)
                   => KindOf(result.code) = "UNKNOWN"
            /\ status = 401 =>
                   (result.code # Unreachable.code /\ result.message # Unreachable.message)

\* C38: a mounted surface makes at most 5 resendVerificationEmail calls.
C38_ResendThrottled ==
    ui.resends <= 5

====
